---- MODULE Spec2Model ----
(***************************************************************************)
(* The per-stream wake bookkeeping of the QUIC transport:                  *)
(*   connection/stream.rs      WriterStatus, StreamState                   *)
(*   connection/stream_map.rs  Streams (the table StreamId -> StreamState) *)
(* A waker or a one-shot sender is moved into the table by a registration  *)
(* call, so every registration hands over a value that was never seen      *)
(* before: registrations are numbered 1, 2, ... in the order of the calls. *)
(* The task behind a registration stays parked on the stream and axis it   *)
(* registered on until its waker is woken or its channel receives.         *)
(***************************************************************************)
EXTENDS Integers, FiniteSets, Sequences, TLC

NumIds == 2
MaxReg == 3

Ids == 1 .. NumIds
Waiters == 1 .. MaxReg

(* Option<task::Waker>::None *)
NoWaker == 0

(* enum WriterStatus *)
Unblocked == [tag |-> "Unblocked", w |-> NoWaker]
Blocked(waker) == [tag |-> "Blocked", w |-> waker]
Finishing(finisher) == [tag |-> "Finishing", w |-> finisher]

(* impl Default for StreamState *)
Default == [reader |-> NoWaker, writer |-> Unblocked]

(* One call of waker.wake() or of finisher.send(()) *)
Wake(waker) == [w |-> waker, how |-> "wake"]
Send(finisher) == [w |-> finisher, how |-> "send"]

(* WriterStatus::take with the finisher dropped unsent *)
take_wakers_only(self) ==
    IF self.tag = "Blocked" THEN << Wake(self.w) >> ELSE << >>

(* WriterStatus::take: the calls it makes, in order *)
take(self) ==
    CASE self.tag = "Unblocked" -> << >>
      [] self.tag = "Blocked" -> << Wake(self.w) >>
      [] self.tag = "Finishing" -> << Send(self.w) >>

(* The methods of StreamState: the state they leave and the calls they make *)
StreamState_wake_reader(self) ==
    IF self.reader # NoWaker
    THEN [st |-> [self EXCEPT !.reader = NoWaker], ev |-> << Wake(self.reader) >>]
    ELSE [st |-> self, ev |-> << >>]

(* StreamState::wake_writer waking the reader as well *)
StreamState_wake_writer_both(self) ==
    [st |-> Default,
     ev |-> take(self.writer) \o
            (IF self.reader # NoWaker THEN << Wake(self.reader) >> ELSE << >>)]

(* StreamState::wake_writer with the writer axis left as it is *)
StreamState_wake_writer_kept(self) ==
    [st |-> self, ev |-> take(self.writer)]

StreamState_wake_writer(self) ==
    [st |-> [self EXCEPT !.writer = Unblocked], ev |-> take(self.writer)]

(* StreamState::set_reader with the displaced waker forgotten *)
StreamState_set_reader_silent(self, waker) ==
    [st |-> [self EXCEPT !.reader = waker], ev |-> << >>]

(* StreamState::set_reader keeping the first waker and waking the newcomer *)
StreamState_set_reader_first_wins(self, waker) ==
    IF self.reader # NoWaker
    THEN [st |-> self, ev |-> << Wake(waker) >>]
    ELSE [st |-> [self EXCEPT !.reader = waker], ev |-> << >>]

StreamState_set_reader(self, waker) ==
    [st |-> [self EXCEPT !.reader = waker],
     ev |-> IF self.reader # NoWaker THEN << Wake(self.reader) >> ELSE << >>]

(* StreamState::set_writer displacing a writer waker only *)
StreamState_set_writer_beside(self, waker) ==
    [st |-> [self EXCEPT !.writer = Blocked(waker)],
     ev |-> IF self.writer.tag = "Blocked" THEN take(self.writer) ELSE << >>]

StreamState_set_writer(self, waker) ==
    [st |-> [self EXCEPT !.writer = Blocked(waker)], ev |-> take(self.writer)]

(* StreamState::set_finisher notifying the finisher it has just stored *)
StreamState_set_finisher_echo(self, finisher) ==
    [st |-> [self EXCEPT !.writer = Finishing(finisher)],
     ev |-> take(self.writer) \o << Send(finisher) >>]

StreamState_set_finisher(self, finisher) ==
    [st |-> [self EXCEPT !.writer = Finishing(finisher)], ev |-> take(self.writer)]

(* StreamState::wake_all with the writer left out *)
StreamState_wake_all_reader_only(self) ==
    StreamState_wake_reader(self)

StreamState_wake_all(self) ==
    LET a == StreamState_wake_writer(self)
        b == StreamState_wake_reader(a.st)
    IN  [st |-> b.st, ev |-> a.ev \o b.ev]

(* StreamState without its Drop *)
StreamState_drop_nothing(self) == << >>

(* impl Drop for StreamState: the calls made while the value is destroyed *)
StreamState_drop(self) == StreamState_wake_all(self).ev

VARIABLES
    map,        \* Streams.map: a function from the ids present to their StreamState
    nreg,       \* the number of wakers and senders handed to the table so far
    parked,     \* per waiter: the stream and axis its task is parked on, if any
    resolved,   \* per waiter: how often wake() or send(()) was called on it
    outcome,    \* per waiter: what the task holding the other end observes
    live,       \* the ids added by add_stream and not yet removed by remove
    last,       \* the call made last, what it found and the calls it made
    panicked,   \* a call has panicked
    dropped,    \* the table has been destroyed
    gone,       \* the finishers of the table whose oneshot::Receiver has been dropped
    cert        \* the certificate on its way from make_cert to unwrap_libp2p_certificate

vars == << map, nreg, parked, resolved, outcome, live, last, panicked, dropped, gone, cert >>

NotParked == [kind |-> "none", id |-> 0]

NoCall == [op |-> "new", id |-> 0, w |-> NoWaker, had |-> FALSE, prev |-> Default, ev |-> << >>]

(* No long-term keypair, no result of an extraction, no certificate *)
NoKey == [type |-> "none", secret |-> 0]
NoResult == [kind |-> "none", peer |-> << >>, msg |-> ""]
NoCert ==
    [stage |-> "none", key |-> NoKey, ephemeral |-> 0, extensions |-> << >>,
     result |-> NoResult]

(* Streams::default() *)
Init ==
    /\ map = << >>
    /\ nreg = 0
    /\ parked = [w \in Waiters |-> NotParked]
    /\ resolved = [w \in Waiters |-> 0]
    /\ outcome = [w \in Waiters |-> "Pending"]
    /\ live = {}
    /\ last = NoCall
    /\ panicked = FALSE
    /\ dropped = FALSE
    /\ gone = {}
    /\ cert = NoCert

Running == ~panicked /\ ~dropped

Hits(ev, w) == { i \in 1 .. Len(ev) : ev[i].w = w }

(* oneshot::Sender::send: Ok(()) if the value was put in the channel, Err
   with the value handed back if the receiver has been dropped *)
SendResult(finisher) == IF finisher \in gone THEN "Err" ELSE "Ok"

(* `let _ = finisher.send(())` with the result unwrapped instead *)
Discard_unwrap(result) == IF result = "Err" THEN "panic" ELSE "done"

(* `let _ =` in WriterStatus::take: whatever send returns is discarded *)
Discard(result) == "done"

(* A call of ev makes the method that makes it panic *)
Unwinds(ev) ==
    \E i \in 1 .. Len(ev) : ev[i].how = "send" /\ Discard(SendResult(ev[i].w)) = "panic"

(* waker.wake() resumes the task; finisher.send(()) puts Ok(()) in the channel
   for the task that awaits it, if there still is one *)
Observed(call) ==
    IF call.how = "wake" THEN "Woken"
    ELSE IF SendResult(call.w) = "Ok" THEN "Ok" ELSE "Undelivered"

(* The method that made the calls of ev ends: in a panic if it fails itself
   or if one of the calls does. A finisher that was sent on is consumed, and
   its channel is no more. *)
Completes(ev, fails) ==
    /\ panicked' = (panicked \/ fails \/ Unwinds(ev))
    /\ gone' = { finisher \in gone : Hits(ev, finisher) = {} }

(* The calls of ev are made, and a waiter w is handed to the table to park its
   task on `at` (w = NoWaker: no waiter is handed over). A task resumed by a
   call is parked no longer. *)
Deliver(ev, w, at) ==
    /\ parked' = [v \in Waiters |->
                    IF Hits(ev, v) # {} THEN NotParked
                    ELSE IF v = w THEN at
                    ELSE parked[v]]
    /\ resolved' = [v \in Waiters |-> resolved[v] + Cardinality(Hits(ev, v))]
    /\ outcome' = [v \in Waiters |->
                     IF Hits(ev, v) # {}
                     THEN Observed(ev[CHOOSE i \in Hits(ev, v) : TRUE])
                     ELSE outcome[v]]

Entry(id) == IF id \in DOMAIN map THEN map[id] ELSE Default

Call(op, id, w, ev) ==
    [op |-> op, id |-> id, w |-> w, had |-> id \in DOMAIN map, prev |-> Entry(id), ev |-> ev]

(* HashMap::insert and HashMap::remove *)
Insert(m, id, st) == [j \in DOMAIN m \cup {id} |-> IF j = id THEN st ELSE m[j]]
Remove(m, id) == [j \in DOMAIN m \ {id} |-> m[j]]

(* Streams::add_stream overwriting an entry without a word *)
Streams_add_stream_silent(id) ==
    /\ Running
    /\ LET ev == IF id \in DOMAIN map THEN StreamState_drop(map[id]) ELSE << >>
       IN  /\ map' = Insert(map, id, Default)
           /\ Deliver(ev, NoWaker, NotParked)
           /\ last' = Call("add_stream", id, NoWaker, ev)
           /\ Completes(ev, FALSE)
    /\ live' = live \cup {id}
    /\ UNCHANGED << nreg, dropped, cert >>

(* Streams::add_stream looking the id up before it inserts *)
Streams_add_stream_lookup_first(id) ==
    /\ Running
    /\ map' = IF id \in DOMAIN map THEN map ELSE Insert(map, id, Default)
    /\ Deliver(<< >>, NoWaker, NotParked)
    /\ last' = Call("add_stream", id, NoWaker, << >>)
    /\ Completes(<< >>, id \in DOMAIN map)
    /\ live' = live \cup {id}
    /\ UNCHANGED << nreg, dropped, cert >>

(* Streams::add_stream: the insert is made first; a displaced StreamState is
   destroyed (its Drop runs) and then the call panics *)
Streams_add_stream(id) ==
    /\ Running
    /\ LET ev == IF id \in DOMAIN map THEN StreamState_drop(map[id]) ELSE << >>
       IN  /\ map' = Insert(map, id, Default)
           /\ Deliver(ev, NoWaker, NotParked)
           /\ last' = Call("add_stream", id, NoWaker, ev)
           /\ Completes(ev, id \in DOMAIN map)
    /\ live' = live \cup {id}
    /\ UNCHANGED << nreg, dropped, cert >>

(* Streams::wake_reader going through Streams::get, which panics on an
   unknown id *)
Streams_wake_reader_strict(id) ==
    /\ Running
    /\ LET r == StreamState_wake_reader(Entry(id))
           ev == IF id \in DOMAIN map THEN r.ev ELSE << >>
       IN  /\ map' = IF id \in DOMAIN map THEN [map EXCEPT ![id] = r.st] ELSE map
           /\ Deliver(ev, NoWaker, NotParked)
           /\ last' = Call("wake_reader", id, NoWaker, ev)
           /\ Completes(ev, id \notin DOMAIN map)
    /\ UNCHANGED << nreg, live, dropped, cert >>

(* Streams::wake_reader and Streams::wake_writer: an unknown id is tolerated *)
Streams_wake_reader(id) ==
    /\ Running
    /\ LET r == StreamState_wake_reader(Entry(id))
           ev == IF id \in DOMAIN map THEN r.ev ELSE << >>
       IN  /\ map' = IF id \in DOMAIN map THEN [map EXCEPT ![id] = r.st] ELSE map
           /\ Deliver(ev, NoWaker, NotParked)
           /\ last' = Call("wake_reader", id, NoWaker, ev)
           /\ Completes(ev, FALSE)
    /\ UNCHANGED << nreg, live, dropped, cert >>

Streams_wake_writer(id) ==
    /\ Running
    /\ LET r == StreamState_wake_writer(Entry(id))
           ev == IF id \in DOMAIN map THEN r.ev ELSE << >>
       IN  /\ map' = IF id \in DOMAIN map THEN [map EXCEPT ![id] = r.st] ELSE map
           /\ Deliver(ev, NoWaker, NotParked)
           /\ last' = Call("wake_writer", id, NoWaker, ev)
           /\ Completes(ev, FALSE)
    /\ UNCHANGED << nreg, live, dropped, cert >>

(* Streams::get creating the entry it does not find *)
Register_or_default(op, kind, id, r) ==
    LET w == nreg + 1
    IN  /\ map' = Insert(map, id, r.st)
        /\ nreg' = w
        /\ Deliver(r.ev, w, [kind |-> kind, id |-> id])
        /\ last' = Call(op, id, w, r.ev)
        /\ Completes(r.ev, FALSE)
        /\ UNCHANGED << live, dropped, cert >>

(* Streams::get followed by the registration. get panics on an unknown id:
   nothing is registered and the table is left as it was *)
Register(op, kind, id, r) ==
    LET w == nreg + 1
    IN  /\ IF id \in DOMAIN map
           THEN /\ map' = [map EXCEPT ![id] = r.st]
                /\ nreg' = w
                /\ Deliver(r.ev, w, [kind |-> kind, id |-> id])
                /\ last' = Call(op, id, w, r.ev)
                /\ Completes(r.ev, FALSE)
           ELSE /\ last' = Call(op, id, NoWaker, << >>)
                /\ Completes(<< >>, TRUE)
                /\ UNCHANGED << map, nreg, parked, resolved, outcome >>
        /\ UNCHANGED << live, dropped, cert >>

Streams_set_reader(id) ==
    /\ Running
    /\ nreg < MaxReg
    /\ Register("set_reader", "reader", id, StreamState_set_reader(Entry(id), nreg + 1))

Streams_set_writer(id) ==
    /\ Running
    /\ nreg < MaxReg
    /\ Register("set_writer", "writer", id, StreamState_set_writer(Entry(id), nreg + 1))

Streams_set_finisher(id) ==
    /\ Running
    /\ nreg < MaxReg
    /\ Register("set_finisher", "finisher", id, StreamState_set_finisher(Entry(id), nreg + 1))

(* Streams::remove ignoring an unknown id *)
Streams_remove_lenient(id) ==
    /\ Running
    /\ LET ev == IF id \in DOMAIN map THEN StreamState_drop(map[id]) ELSE << >>
       IN  /\ map' = Remove(map, id)
           /\ Deliver(ev, NoWaker, NotParked)
           /\ last' = Call("remove", id, NoWaker, ev)
           /\ Completes(ev, FALSE)
    /\ live' = live \ {id}
    /\ UNCHANGED << nreg, dropped, cert >>

(* Streams::remove: the entry taken out of the map is destroyed (its Drop runs);
   an unknown id panics *)
Streams_remove(id) ==
    /\ Running
    /\ LET ev == IF id \in DOMAIN map THEN StreamState_drop(map[id]) ELSE << >>
       IN  /\ map' = Remove(map, id)
           /\ Deliver(ev, NoWaker, NotParked)
           /\ last' = Call("remove", id, NoWaker, ev)
           /\ Completes(ev, id \notin DOMAIN map)
    /\ live' = live \ {id}
    /\ UNCHANGED << nreg, dropped, cert >>

(* The orders in which a HashMap with the keys of `keys` can hand out its
   entries: std does not fix the order, and it differs from run to run *)
Orders(keys) ==
    { order \in [1 .. Cardinality(keys) -> keys] :
        \A i, j \in 1 .. Cardinality(keys) : order[i] = order[j] => i = j }

(* The calls StreamState::wake_all makes on the entries of m, taken in order *)
RECURSIVE WakeAllCalls(_, _)
WakeAllCalls(m, order) ==
    IF order = << >> THEN << >>
    ELSE StreamState_wake_all(m[Head(order)]).ev \o WakeAllCalls(m, Tail(order))

(* Streams::wake_all stopping after the first entry *)
Streams_wake_all_first ==
    /\ Running
    /\ \E order \in Orders(DOMAIN map) :
         LET first == { order[i] : i \in DOMAIN order \cap {1} }
             ev == WakeAllCalls(map, SubSeq(order, 1, Cardinality(first)))
         IN  /\ map' = [j \in DOMAIN map |->
                          IF j \in first THEN StreamState_wake_all(map[j]).st ELSE map[j]]
             /\ Deliver(ev, NoWaker, NotParked)
             /\ last' = Call("wake_all", 0, NoWaker, ev)
             /\ Completes(ev, FALSE)
    /\ UNCHANGED << nreg, live, dropped, cert >>

(* Streams::wake_all: every entry of the map, in the order values_mut hands
   them out *)
Streams_wake_all ==
    /\ Running
    /\ \E ev \in { WakeAllCalls(map, order) : order \in Orders(DOMAIN map) } :
         /\ map' = [j \in DOMAIN map |-> StreamState_wake_all(map[j]).st]
         /\ Deliver(ev, NoWaker, NotParked)
         /\ last' = Call("wake_all", 0, NoWaker, ev)
         /\ Completes(ev, FALSE)
    /\ UNCHANGED << nreg, live, dropped, cert >>

(* The calls made while the entries of m are destroyed, taken in order *)
RECURSIVE DropCalls(_, _)
DropCalls(m, order) ==
    IF order = << >> THEN << >>
    ELSE StreamState_drop(m[Head(order)]) \o DropCalls(m, Tail(order))

(* The table goes out of scope, at the end of the connection or while a panic
   unwinds: the map is destroyed and with it every StreamState, in the order
   the HashMap holds them *)
Streams_drop ==
    /\ ~dropped
    /\ \E ev \in { DropCalls(map, order) : order \in Orders(DOMAIN map) } :
         /\ map' = << >>
         /\ Deliver(ev, NoWaker, NotParked)
         /\ last' = Call("drop", 0, NoWaker, ev)
         /\ Completes(ev, FALSE)
    /\ dropped' = TRUE
    /\ UNCHANGED << nreg, live, cert >>

(* The task awaiting a finisher stored in the table goes away and drops its
   oneshot::Receiver. The task does not ask the table: it may do so whenever
   the finisher is stored, also after a call on the table has panicked and
   before the table is destroyed. *)
Receiver_drop(finisher) ==
    /\ parked[finisher].kind = "finisher"
    /\ finisher \notin gone
    /\ gone' = gone \cup {finisher}
    /\ last' = Call("receiver_drop", parked[finisher].id, finisher, << >>)
    /\ UNCHANGED << map, nreg, parked, resolved, outcome, live, panicked, dropped, cert >>

Next ==
    \/ \E id \in Ids : Streams_add_stream(id)
    \/ \E id \in Ids : Streams_wake_reader(id)
    \/ \E id \in Ids : Streams_wake_writer(id)
    \/ \E id \in Ids : Streams_set_reader(id)
    \/ \E id \in Ids : Streams_set_writer(id)
    \/ \E id \in Ids : Streams_set_finisher(id)
    \/ \E id \in Ids : Streams_remove(id)
    \/ Streams_wake_all
    \/ Streams_drop

Spec == Init /\ [][Next]_vars

(* The calls on the table while the tasks that await finishers may go away *)
CancelNext ==
    \/ \E id \in Ids : Streams_add_stream(id)
    \/ \E id \in Ids : Streams_wake_reader(id)
    \/ \E id \in Ids : Streams_wake_writer(id)
    \/ \E id \in Ids : Streams_set_reader(id)
    \/ \E id \in Ids : Streams_set_writer(id)
    \/ \E id \in Ids : Streams_set_finisher(id)
    \/ \E id \in Ids : Streams_remove(id)
    \/ Streams_wake_all
    \/ Streams_drop
    \/ \E finisher \in Waiters : Receiver_drop(finisher)

CancelSpec == Init /\ [][CancelNext]_vars

(* The calls on one stream of the table *)
TheStream == CHOOSE id \in Ids : TRUE

OneStreamNext ==
    \/ Streams_add_stream(TheStream)
    \/ Streams_wake_reader(TheStream)
    \/ Streams_wake_writer(TheStream)
    \/ Streams_set_reader(TheStream)
    \/ Streams_set_writer(TheStream)
    \/ Streams_set_finisher(TheStream)
    \/ Streams_remove(TheStream)
    \/ Streams_wake_all
    \/ Streams_drop
    \/ \E finisher \in Waiters : Receiver_drop(finisher)

(* The table schedules nothing: every call is made by its owner and by the
   tasks that use it, when and if they choose *)
OneStreamSpec == Init /\ [][OneStreamNext]_vars

(***************************************************************************)
(* certificate.rs: the certificate that carries a signed long-term key     *)
(***************************************************************************)

MaxKey == 2
MaxEphemeral == 2

(* const LIBP2P_OID, LIBP2P_OID_BYTES, LIBP2P_SIGNING_PREFIX (b"libp2p-tls-handshake:") *)
LIBP2P_OID == << 1, 3, 6, 1, 4, 1, 53594, 1, 1 >>
LIBP2P_OID_BYTES == << 43, 6, 1, 4, 1, 131, 162, 90, 1, 1 >>
LIBP2P_SIGNING_PREFIX ==
    << 108, 105, 98, 112, 50, 112, 45, 116, 108, 115, 45,
       104, 97, 110, 100, 115, 104, 97, 107, 101, 58 >>
LIBP2P_SIGNING_PREFIX_LENGTH == Len(LIBP2P_SIGNING_PREFIX)
LIBP2P_SIGNATURE_ALGORITHM_PUBLIC_KEY_LENGTH == 65

(* identity::Keypair: the long-term keypairs, and the public key of one *)
KeyTypes == {"Rsa", "Ed25519", "Secp256k1"}
Keypairs == [type : KeyTypes, secret : 1 .. MaxKey]
PublicByte(secret) == 2 * secret
public(keypair) == [type |-> keypair.type, data |-> << PublicByte(keypair.secret) >>]

(* keys.proto: enum KeyType, and the length of the key data of the model *)
TypeCode(type) == CASE type = "Rsa" -> 0 [] type = "Ed25519" -> 1 [] type = "Secp256k1" -> 2
KeyDataLen == Len(public(CHOOSE keypair \in Keypairs : TRUE).data)

(* PublicKey::into_protobuf_encoding: field 1 (varint) Type, field 2 (bytes) Data *)
into_protobuf_encoding(public_key) ==
    << 8, TypeCode(public_key.type), 18, Len(public_key.data) >> \o public_key.data

(* PublicKey::from_protobuf_encoding: Err for what is no message of this
   shape, for a key type that is not supported and for key data that is no key *)
from_protobuf_encoding(bytes) ==
    IF /\ Len(bytes) = 4 + KeyDataLen
       /\ bytes[1] = 8
       /\ bytes[2] \in { TypeCode(type) : type \in KeyTypes }
       /\ bytes[3] = 18
       /\ bytes[4] = KeyDataLen
    THEN [ok |-> TRUE,
          key |-> [type |-> CHOOSE type \in KeyTypes : TypeCode(type) = bytes[2],
                   data |-> SubSeq(bytes, 5, Len(bytes))]]
    ELSE [ok |-> FALSE, key |-> [type |-> "none", data |-> << >>]]

(* PeerId from PublicKey: the multihash of the protobuf encoding, with the
   digest standing for itself *)
PeerId_from(public_key) ==
    << 18, Len(into_protobuf_encoding(public_key)) >> \o into_protobuf_encoding(public_key)

RECURSIVE Sum(_)
Sum(bytes) == IF bytes = << >> THEN 0 ELSE Head(bytes) + Sum(Tail(bytes))

(* The length of a signature: that of the modulus for an RSA key, of 1024
   bits for the first key and of 2048 bits for the others, and two bytes,
   which stand for the whole, for the other types *)
SignatureLen(keypair) ==
    IF keypair.type # "Rsa" THEN 2 ELSE IF keypair.secret = 1 THEN 128 ELSE 256

(* Keypair::sign and PublicKey::verify: a signature names the key that made
   it and the message it was made over *)
Checksum(msg) == Sum(msg) % 251
Sign(keypair, msg) ==
    << keypair.secret, Checksum(msg) >> \o
    (IF SignatureLen(keypair) = 2 THEN << >>
     ELSE [i \in 1 .. SignatureLen(keypair) - 2 |-> 255])
Verify(public_key, msg, signature) ==
    /\ Len(signature) >= 2
    /\ public_key.data = << PublicByte(signature[1]) >>
    /\ signature = Sign([type |-> public_key.type, secret |-> signature[1]], msg)

(* rcgen::KeyPair::public_key_raw of the e-th generated P-256 key: the
   uncompressed point, 0x04 and two coordinates of 32 bytes *)
public_key_raw(e) ==
    << 4 >> \o [i \in 1 .. 32 |-> (e * i) % 256] \o [i \in 1 .. 32 |-> (e + i) % 256]

(* DER as yasna writes it: identifier, length (short form below 128), contents *)
DerLength(n) ==
    IF n < 128 THEN << n >>
    ELSE IF n < 256 THEN << 129, n >>
    ELSE << 130, n \div 256, n % 256 >>
write_sequence(contents) == << 48 >> \o DerLength(Len(contents)) \o contents
write_bitvec_bytes(bytes) ==
    << 3 >> \o DerLength(Len(bytes) + 1) \o << (8 - ((Len(bytes) * 8) % 8)) % 8 >> \o bytes

(* The encoding of an object identifier: 40 * first + second, then every
   arc in base 128 with the high bit set on all but its last byte *)
RECURSIVE Septets(_)
Septets(n) == (IF n < 128 THEN << >> ELSE Septets(n \div 128)) \o << 128 + (n % 128) >>
Base128(n) == (IF n < 128 THEN << >> ELSE Septets(n \div 128)) \o << n % 128 >>
RECURSIVE Arcs(_)
Arcs(arcs) == IF arcs = << >> THEN << >> ELSE Base128(Head(arcs)) \o Arcs(Tail(arcs))
from_oid_content(oid, content) ==
    [oid |-> << 40 * oid[1] + oid[2] >> \o Arcs(Tail(Tail(oid))),
     critical |-> FALSE, value |-> content]

(* encode_signed_key writing the signature before the key *)
encode_signed_key_swapped(public_key, signature) ==
    LET contents == write_sequence(write_bitvec_bytes(signature)
                                   \o write_bitvec_bytes(into_protobuf_encoding(public_key)))
    IN  [from_oid_content(LIBP2P_OID, contents) EXCEPT !.critical = TRUE]

encode_signed_key(public_key, signature) ==
    LET contents == write_sequence(write_bitvec_bytes(into_protobuf_encoding(public_key))
                                   \o write_bitvec_bytes(signature))
    IN  [from_oid_content(LIBP2P_OID, contents) EXCEPT !.critical = TRUE]

(* gen_signed_keypair with the e-th key as the generated one *)
gen_signed_keypair(keypair, e) ==
    LET signing_buf == LIBP2P_SIGNING_PREFIX \o public_key_raw(e)
    IN  [key_pair |-> e,
         extension |-> encode_signed_key(public(keypair), Sign(keypair, signing_buf))]

make_cert(keypair, e) ==
    [stage |-> "issued", key |-> keypair,
     ephemeral |-> gen_signed_keypair(keypair, e).key_pair,
     extensions |-> << gen_signed_keypair(keypair, e).extension >>,
     result |-> NoResult]

(* ring::io::der::expect_tag_and_get_value on the input left. The length is
   one byte below 128, or 0x81 and a byte of 128 or more, or 0x82 and two
   bytes that make 256 or more; Err for a high tag number, for any other
   length, for a length the input does not hold and for another tag *)
Unspecified == [ok |-> FALSE, value |-> << >>, rest |-> << >>]
expect_tag_and_get_value(input, tag) ==
    IF Len(input) < 2 THEN Unspecified
    ELSE IF input[1] % 32 = 31 THEN Unspecified
    ELSE LET header == IF input[2] < 128 THEN 2
                       ELSE IF input[2] = 129 THEN 3
                       ELSE IF input[2] = 130 THEN 4
                       ELSE 0
             length == IF header = 2 THEN input[2]
                       ELSE IF header = 3 /\ Len(input) >= 3 /\ input[3] >= 128
                       THEN input[3]
                       ELSE IF header = 4 /\ Len(input) >= 4
                               /\ input[3] * 256 + input[4] >= 256
                       THEN input[3] * 256 + input[4]
                       ELSE -1
         IN  IF length < 0 THEN Unspecified
             ELSE IF Len(input) < header + length THEN Unspecified
             ELSE IF input[1] # tag THEN Unspecified
             ELSE [ok |-> TRUE,
                   value |-> SubSeq(input, header + 1, header + length),
                   rest |-> SubSeq(input, header + length + 1, Len(input))]

(* ring::io::der::bit_string_with_no_unused_bits *)
bit_string_with_no_unused_bits(input) ==
    LET bits == expect_tag_and_get_value(input, 3)
    IN  IF ~bits.ok THEN Unspecified
        ELSE IF bits.value = << >> THEN Unspecified
        ELSE IF bits.value[1] # 0 THEN Unspecified
        ELSE [ok |-> TRUE, value |-> Tail(bits.value), rest |-> bits.rest]

Panic(msg) == [kind |-> "panic", peer |-> << >>, msg |-> msg]
Peer(peer) == [kind |-> "peer", peer |-> peer, msg |-> ""]

extract_libp2p_peerid(extension) ==
    LET inner == expect_tag_and_get_value(extension, 48)
        public_key == bit_string_with_no_unused_bits(inner.value)
        signature == bit_string_with_no_unused_bits(public_key.rest)
        decoded == from_protobuf_encoding(public_key.value)
    IN  IF ~inner.ok \/ ~public_key.ok \/ ~signature.ok
        THEN Panic("we already checked this in the certificate verifier")
        ELSE IF ~decoded.ok THEN Panic("already checked")
        ELSE IF signature.rest # << >> \/ inner.rest # << >>
        THEN Panic("we already checked this in the certificate verifier")
        ELSE Peer(PeerId_from(decoded.key))

(* webpki::EndEntityCert::from_with_extension_cb walking the extensions with
   the callback of unwrap_libp2p_certificate: an extension the callback does
   not understand is an error if it is critical *)
BadDER == [kind |-> "err", peer |-> << >>, msg |-> ""]
RECURSIVE from_with_extension_cb(_, _)
from_with_extension_cb(extensions, id) ==
    IF extensions = << >> THEN id
    ELSE IF Head(extensions).oid = LIBP2P_OID_BYTES
    THEN IF extract_libp2p_peerid(Head(extensions).value).kind = "panic"
         THEN extract_libp2p_peerid(Head(extensions).value)
         ELSE from_with_extension_cb(Tail(extensions),
                                     extract_libp2p_peerid(Head(extensions).value))
    ELSE IF Head(extensions).critical THEN BadDER
    ELSE from_with_extension_cb(Tail(extensions), id)

unwrap_libp2p_certificate(certificate) ==
    LET id == from_with_extension_cb(certificate.extensions, NoResult)
    IN  IF id.kind = "panic" THEN id
        ELSE IF id.kind = "err"
        THEN Panic("we already validated the certificate is well-formed")
        ELSE IF id.kind = "none"
        THEN Panic("we already checked that a libp2p extension exists")
        ELSE id

tableVars == << map, nreg, parked, resolved, outcome, live, last, panicked, dropped, gone >>

(* make_cert is called with a long-term keypair *)
Issue(keypair, e) ==
    /\ cert.stage = "none"
    /\ cert' = make_cert(keypair, e)
    /\ UNCHANGED tableVars

(* The certificate a peer presents is the bytes the peer chooses: an issued
   certificate with a byte of the extension value altered, *)
TamperBytes == 0 .. 4 \cup {129}
ValueLen == IF cert.extensions = << >> THEN 0 ELSE Len(cert.extensions[1].value)
Tamper_byte(i, b) ==
    /\ cert.stage = "issued"
    /\ cert.result = NoResult
    /\ i \in 1 .. ValueLen
    /\ cert.extensions[1].value[i] # b
    /\ cert' = [cert EXCEPT !.stage = "tampered", !.extensions[1].value[i] = b]
    /\ UNCHANGED tableVars

(* with the signature left out of the sequence, *)
Tamper_field ==
    /\ cert.stage = "issued"
    /\ cert.result = NoResult
    /\ cert' = [cert EXCEPT
                  !.stage = "tampered",
                  !.extensions[1].value =
                      write_sequence(write_bitvec_bytes(
                          into_protobuf_encoding(public(cert.key))))]
    /\ UNCHANGED tableVars

(* with the extension under another object identifier, *)
Tamper_oid ==
    /\ cert.stage = "issued"
    /\ cert.result = NoResult
    /\ cert' = [cert EXCEPT
                  !.stage = "tampered",
                  !.extensions[1].oid = [@ EXCEPT ![Len(@)] = @ + 1]]
    /\ UNCHANGED tableVars

(* without the extension, *)
Tamper_strip ==
    /\ cert.stage = "issued"
    /\ cert.result = NoResult
    /\ cert' = [cert EXCEPT !.stage = "tampered", !.extensions = << >>]
    /\ UNCHANGED tableVars

(* or with the extension of an issued certificate in a certificate of
   another key *)
Tamper_rekey(e) ==
    /\ cert.stage = "issued"
    /\ cert.result = NoResult
    /\ e # cert.ephemeral
    /\ cert' = [cert EXCEPT !.stage = "tampered", !.ephemeral = e]
    /\ UNCHANGED tableVars

(* unwrap_libp2p_certificate is called on the certificate *)
Extract ==
    /\ cert.stage # "none"
    /\ cert.result = NoResult
    /\ cert' = [cert EXCEPT !.result = unwrap_libp2p_certificate(cert)]
    /\ UNCHANGED tableVars

CertNext ==
    \/ \E keypair \in Keypairs, e \in 1 .. MaxEphemeral : Issue(keypair, e)
    \/ \E i \in 1 .. ValueLen, b \in TamperBytes : Tamper_byte(i, b)
    \/ Tamper_field
    \/ Tamper_oid
    \/ Tamper_strip
    \/ \E e \in 1 .. MaxEphemeral : Tamper_rekey(e)
    \/ Extract

CertSpec == Init /\ [][CertNext]_vars
(***************************************************************************)
(* The claims                                                              *)
(***************************************************************************)

Registered(w) == w \in 1 .. nreg

ReaderAt(id) == [kind |-> "reader", id |-> id]
WriterAt(id) == [kind |-> "writer", id |-> id]
FinisherAt(id) == [kind |-> "finisher", id |-> id]

(* The calls of ev that are made on waiter w *)
Times(ev, w) == Cardinality(Hits(ev, w))

(* The waiters stored in the table: the reader and the writer or finisher of
   every entry *)
StoredIn(m) ==
    { w \in Waiters : \E id \in DOMAIN m : m[id].reader = w \/ m[id].writer.w = w }

(* C1 as stated, for the interleaving that the calls made so far are: every
   waiter that was registered on the stream has been resolved (woken or
   notified) exactly once, none of them zero times and none twice. *)
C1_EveryWaiterResolvedOnce ==
    \A w \in Waiters : Registered(w) => resolved[w] = 1

(* C1, amended: under any interleaving of the table's calls on one stream no
   waiter is ever resolved (woken or sent on) more than once; a registered
   waiter is unresolved exactly as long as it is stored in the state of the
   stream, and has been resolved exactly once from the moment it is stored no
   longer; once the stream is out of the table every waiter that was ever
   registered on it has been resolved exactly once. *)
C1_ResolvedOnceWhenLetGo ==
    /\ \A w \in Waiters : resolved[w] <= 1
    /\ \A w \in Waiters : ~Registered(w) => resolved[w] = 0 /\ w \notin StoredIn(map)
    /\ \A w \in Waiters :
          Registered(w) => (IF w \in StoredIn(map) THEN resolved[w] = 0 ELSE resolved[w] = 1)
    /\ TheStream \notin DOMAIN map =>
          \A w \in Waiters : Registered(w) => resolved[w] = 1

(* Three waiters were registered on the stream and each has been resolved
   once, the last two (a reader, and a writer or finisher) by its removal. *)
C1_Witness ==
    /\ nreg >= 3
    /\ \A w \in 1 .. nreg : resolved[w] = 1
    /\ last.op = "remove"
    /\ Len(last.ev) = 2
    /\ TheStream \notin DOMAIN map

(* The call made last was a set_reader that found reader waiter W1 stored *)
SupersededReader ==
    /\ last.op = "set_reader"
    /\ last.had
    /\ last.prev.reader # NoWaker

(* C2: a set_reader(W2) that finds W1 registered wakes W1 by that call and
   stores W2; a wake_reader on the same stream right after it wakes W2 and
   only W2, and W1 has then still been woken once. *)
C2_ReaderSupersession ==
    [][/\ SupersededReader' =>
            /\ last'.ev = << Wake(last'.prev.reader) >>
            /\ resolved'[last'.prev.reader] = 1
            /\ outcome'[last'.prev.reader] = "Woken"
            /\ map'[last'.id].reader = last'.w
            /\ last'.w # last'.prev.reader
            /\ resolved'[last'.w] = 0
            /\ parked'[last'.w] = ReaderAt(last'.id)
       /\ (SupersededReader /\ last'.op = "wake_reader" /\ last'.id = last.id) =>
            /\ last'.ev = << Wake(last.w) >>
            /\ resolved'[last.w] = 1
            /\ resolved'[last.prev.reader] = 1
            /\ map'[last.id].reader = NoWaker
      ]_vars

(* set_reader has just displaced a stored reader waiter *)
C2_Witness ==
    /\ SupersededReader
    /\ last.ev = << Wake(last.prev.reader) >>
    /\ map[last.id].reader = last.w

(* The call made last removed a stream on which a writer waker was stored *)
RemovedBlockedWriter ==
    /\ last.op = "remove"
    /\ last.had
    /\ last.prev.writer.tag = "Blocked"

(* C3: removing a stream on which a writer waiter is registered wakes that
   waiter once in the removal, and no waiter is ever woken a second time,
   whatever calls follow. *)
C3_WakeOnRemoval ==
    /\ RemovedBlockedWriter =>
          /\ Times(last.ev, last.prev.writer.w) = 1
          /\ resolved[last.prev.writer.w] = 1
          /\ outcome[last.prev.writer.w] = "Woken"
          /\ parked[last.prev.writer.w] = NotParked
          /\ last.id \notin DOMAIN map
    /\ \A w \in Waiters : resolved[w] <= 1

C3_Witness ==
    /\ RemovedBlockedWriter
    /\ resolved[last.prev.writer.w] = 1
(* What take makes of a writer axis, stated from the claim: a waker is woken,
   a finisher is notified, and there is nothing to do for Unblocked *)
ResolutionOf(writer) ==
    IF writer.tag = "Blocked" THEN << Wake(writer.w) >>
    ELSE IF writer.tag = "Finishing" THEN << Send(writer.w) >>
    ELSE << >>

(* The call made last registered on the writer axis of a stream of the table *)
WriterRegistration ==
    /\ last.op \in {"set_writer", "set_finisher"}
    /\ last.had

(* C4: set_writer and set_finisher leave the writer axis holding the new
   registration and nothing else, and what the axis held before the call is
   resolved by the call: a displaced waker is woken and a displaced finisher
   is notified, once, and the reader axis is as it was. *)
C4_WriterAxisReplaced ==
    WriterRegistration =>
        /\ map[last.id].writer =
              (IF last.op = "set_writer" THEN Blocked(last.w) ELSE Finishing(last.w))
        /\ map[last.id].reader = last.prev.reader
        /\ last.ev = ResolutionOf(last.prev.writer)
        /\ resolved[last.w] = 0
        /\ last.prev.writer.tag # "Unblocked" =>
              /\ resolved[last.prev.writer.w] = 1
              /\ parked[last.prev.writer.w] = NotParked
              /\ outcome[last.prev.writer.w] \in
                    (IF last.prev.writer.tag = "Blocked" THEN {"Woken"}
                     ELSE {"Ok", "Undelivered"})

(* set_writer has just displaced a finisher and notified it *)
C4_Witness ==
    /\ WriterRegistration
    /\ last.op = "set_writer"
    /\ last.prev.writer.tag = "Finishing"
    /\ outcome[last.prev.writer.w] = "Ok"

(* A step of wake_reader or wake_writer on a stream of the table: the waiter
   stored on the axis before the step (NoWaker if none), which has to be the
   only one resolved, the newest of those parked there, and the one registered
   by the call before if that was a registration on this axis of this stream;
   the state of the other axis and of every other stream stays as it is. *)
WakeFrame(id, w, kinds, registrations) ==
    /\ last'.ev = (IF w = NoWaker THEN << >>
                   ELSE IF outcome'[w] = "Woken" THEN << Wake(w) >> ELSE << Send(w) >>)
    /\ \A v \in Waiters : resolved'[v] = resolved[v] + (IF v = w THEN 1 ELSE 0)
    /\ w # NoWaker => parked[w].id = id /\ parked[w].kind \in kinds
    /\ \A v \in Waiters : (parked[v].id = id /\ parked[v].kind \in kinds) => v <= w
    /\ (last.op \in registrations /\ last.had /\ last.id = id) => w = last.w
    /\ DOMAIN map' = DOMAIN map
    /\ \A j \in DOMAIN map \ {id} : map'[j] = map[j]

(* C5: wake_reader(id) and wake_writer(id) on a stream of the table resolve
   the waiter registered last on that axis of that stream if it is still
   waiting, and nobody else: no earlier registrant, no waiter of the other
   axis or of another stream; the other axis and the other streams are left
   unchanged. *)
C5_WakeResumesLatest ==
    [][/\ (last'.op = "wake_reader" /\ last'.id \in DOMAIN map) =>
            /\ WakeFrame(last'.id, map[last'.id].reader, {"reader"}, {"set_reader"})
            /\ map'[last'.id].reader = NoWaker
            /\ map'[last'.id].writer = map[last'.id].writer
       /\ (last'.op = "wake_writer" /\ last'.id \in DOMAIN map) =>
            /\ WakeFrame(last'.id, map[last'.id].writer.w, {"writer", "finisher"},
                         {"set_writer", "set_finisher"})
            /\ map'[last'.id].writer = Unblocked
            /\ map'[last'.id].reader = map[last'.id].reader
      ]_vars

(* wake_writer has resolved the writer of a stream whose reader stays parked,
   while a waiter of another stream stays parked as well *)
C5_Witness ==
    /\ last.op = "wake_writer"
    /\ last.had
    /\ Len(last.ev) = 1
    /\ map[last.id].reader # NoWaker
    /\ \E j \in DOMAIN map \ {last.id} : map[j] # Default

(* C6: a wake_writer right after set_finisher notifies that finisher, once,
   and leaves the writer axis Unblocked; a wake_writer right after a
   wake_writer on the same stream notifies nobody and changes no state. *)
C6_FinisherOneShot ==
    [][/\ (/\ last.op = "set_finisher" /\ last.had
           /\ last'.op = "wake_writer" /\ last'.id = last.id) =>
            /\ last'.ev = << Send(last.w) >>
            /\ resolved'[last.w] = 1
            /\ outcome'[last.w] = "Ok"
            /\ map'[last.id].writer = Unblocked
       /\ (/\ last.op = "wake_writer" /\ last.had
           /\ last'.op = "wake_writer" /\ last'.id = last.id) =>
            /\ last'.ev = << >>
            /\ map' = map
            /\ resolved' = resolved
            /\ outcome' = outcome
            /\ parked' = parked
      ]_vars

(* wake_writer has found nothing to notify on a stream whose finisher an
   earlier wake_writer has notified *)
C6_Witness ==
    /\ last.op = "wake_writer"
    /\ last.had
    /\ last.ev = << >>
    /\ \E f \in Waiters : outcome[f] = "Ok" /\ resolved[f] = 1
    /\ map[last.id].writer = Unblocked

(* Waiter w is the one stored on the axis of the stream its task is parked on *)
StoredWhereParked(w) ==
    /\ parked[w].id \in DOMAIN map
    /\ \/ parked[w].kind = "reader" /\ map[parked[w].id].reader = w
       \/ parked[w].kind = "writer" /\ map[parked[w].id].writer = Blocked(w)
       \/ parked[w].kind = "finisher" /\ map[parked[w].id].writer = Finishing(w)

(* C7: every waiter that was registered and is not resolved yet is stored in
   the table, on the axis of the stream it was registered on; no task is
   parked on a stream that is not in the table. *)
C7_NoneParkedOnMissingStream ==
    \A w \in Waiters :
        /\ (Registered(w) /\ resolved[w] = 0) => StoredWhereParked(w)
        /\ parked[w] # NotParked => StoredWhereParked(w)

(* A stream that held a reader and a writer-axis waiter has been removed *)
C7_Witness ==
    /\ last.op = "remove"
    /\ Len(last.ev) = 2
    /\ \A w \in 1 .. nreg : resolved[w] = 0 => StoredWhereParked(w)
    /\ \E w \in 1 .. nreg : resolved[w] = 0

(* C8: a task awaiting a finisher channel can tell the removal of its stream
   from the event it awaits: what the finisher of a removed stream observes
   differs from what a finisher notified by wake_writer observes. *)
C8_RemovalDistinguishable ==
    [][\A f, g \in Waiters :
          (/\ last.op = "wake_writer" /\ Times(last.ev, g) = 1 /\ outcome[g] = "Ok"
           /\ last'.op = "remove" /\ Times(last'.ev, f) = 1
           /\ last'.prev.writer = Finishing(f)) =>
             outcome'[f] # outcome'[g]
      ]_vars

(* The waiters whose tasks are parked on one of the kinds of stream id *)
ParkedOn(id, kinds) == { w \in Waiters : parked[w].id = id /\ parked[w].kind \in kinds }

(* C9: every stream holds at most one waiter per axis: its reader axis is
   empty or one waker, its writer axis is Unblocked, one writer waker or one
   finisher, and at most one task is parked on either axis. *)
C9_OneWaiterPerAxis ==
    /\ \A id \in DOMAIN map :
          /\ map[id].reader \in {NoWaker} \cup Waiters
          /\ \/ map[id].writer = Unblocked
             \/ \E w \in Waiters : map[id].writer \in {Blocked(w), Finishing(w)}
    /\ \A id \in Ids :
          /\ Cardinality(ParkedOn(id, {"reader"})) <= 1
          /\ Cardinality(ParkedOn(id, {"writer", "finisher"})) <= 1

(* A finisher registration has just taken the place of a writer waker on a
   stream whose reader axis holds a waiter too *)
C9_Witness ==
    /\ last.op = "set_finisher"
    /\ last.had
    /\ last.prev.writer.tag = "Blocked"
    /\ map[last.id].reader # NoWaker
    /\ ParkedOn(last.id, {"writer", "finisher"}) = {last.w}

(* C10: as long as the table exists, the ids in it are the ids added by
   add_stream and not removed since, and a wake or a registration call leaves
   the set of ids as it found it. *)
C10_IdsAddedNotRemoved ==
    ~dropped =>
        /\ DOMAIN map = live
        /\ last.op \in {"wake_reader", "wake_writer", "set_reader", "set_writer",
                        "set_finisher"} => ((last.id \in DOMAIN map) <=> last.had)

(* A registration was made on the one stream that is in the table, another
   id not being in it *)
C10_Witness ==
    /\ ~dropped
    /\ last.op \in {"set_reader", "set_writer", "set_finisher"}
    /\ last.had
    /\ DOMAIN map = {last.id}
    /\ live = {last.id}
    /\ Ids \ live # {}
(* C11: wake_reader and wake_writer on an id that is not in the table, never
   added or removed before the event arrived, do not panic, resolve nobody
   and leave the table and every stream state as they were. *)
C11_WakeOfUnknownIdIsNoOp ==
    [][(last'.op \in {"wake_reader", "wake_writer"} /\ last'.id \notin DOMAIN map) =>
          /\ ~panicked'
          /\ ~last'.had
          /\ last'.ev = << >>
          /\ map' = map
          /\ resolved' = resolved
          /\ outcome' = outcome
          /\ parked' = parked
          /\ live' = live
      ]_vars

(* wake_writer has been called on an id that is not in the table while a task
   is parked on a stream that is *)
C11_Witness ==
    /\ last.op = "wake_writer"
    /\ ~last.had
    /\ last.id \notin DOMAIN map
    /\ ~panicked
    /\ \E w \in Waiters : parked[w] # NotParked

(* C12: add_stream panics exactly when the id is already in the table; it
   returns normally only for an id that was not there, which is then in the
   table with a default state. *)
C12_DuplicateAddPanics ==
    last.op = "add_stream" =>
        /\ panicked <=> last.had
        /\ last.id \in DOMAIN map
        /\ map[last.id] = Default

(* add_stream has been called a second time with the same id *)
C12_Witness ==
    /\ last.op = "add_stream"
    /\ last.had
    /\ panicked

(* C13: remove, set_reader, set_writer and set_finisher on an id that is not
   in the table panic; they create no entry, register nothing and resolve
   nobody. On an id that is in the table they do not panic. *)
C13_StrictOnUnknownId ==
    last.op \in {"remove", "set_reader", "set_writer", "set_finisher"} =>
        /\ panicked <=> ~last.had
        /\ ~last.had =>
              /\ last.id \notin DOMAIN map
              /\ last.ev = << >>
              /\ last.w = NoWaker

(* A strict call has been made on an id that is not in the table *)
C13_Witness ==
    /\ last.op \in {"remove", "set_finisher"}
    /\ ~last.had
    /\ panicked
    /\ map # << >>
(* C14: a call of wake_writer, set_writer, set_finisher, wake_all or remove
   that sends on a finisher whose receiver has been dropped does not panic,
   resolves that finisher once without anything being delivered, and leaves
   the writer axis where the call leaves it for a live receiver: Unblocked
   after wake_writer, the new registration after set_writer and set_finisher,
   every stream at its default after wake_all, and no entry after remove. *)
C14_SafeWithoutReceiver ==
    [][\A f \in gone :
          (/\ Times(last'.ev, f) >= 1
           /\ last'.op \in {"wake_writer", "set_writer", "set_finisher", "wake_all", "remove"}) =>
             /\ ~panicked'
             /\ Times(last'.ev, f) = 1
             /\ resolved'[f] = 1
             /\ outcome'[f] = "Undelivered"
             /\ f \notin gone'
             /\ last'.op = "wake_writer" =>
                   /\ map'[last'.id].writer = Unblocked
                   /\ map'[last'.id].reader = map[last'.id].reader
             /\ last'.op = "set_writer" =>
                   /\ map'[last'.id].writer = Blocked(last'.w)
                   /\ map'[last'.id].reader = map[last'.id].reader
             /\ last'.op = "set_finisher" =>
                   /\ map'[last'.id].writer = Finishing(last'.w)
                   /\ map'[last'.id].reader = map[last'.id].reader
             /\ last'.op = "wake_all" =>
                   /\ DOMAIN map' = DOMAIN map
                   /\ \A j \in DOMAIN map' : map'[j] = Default
             /\ last'.op = "remove" =>
                   /\ DOMAIN map' = DOMAIN map \ {last'.id}
                   /\ \A j \in DOMAIN map' : map'[j] = map[j]
      ]_vars

(* remove has just sent on the finisher of the stream, whose receiver was
   dropped, and woken the reader stored beside it, and the table goes on
   running *)
C14_Witness ==
    /\ last.op = "remove"
    /\ last.prev.writer.tag = "Finishing"
    /\ last.prev.reader # NoWaker
    /\ last.ev = << Send(last.prev.writer.w), Wake(last.prev.reader) >>
    /\ outcome[last.prev.reader] = "Woken"
    /\ Times(last.ev, last.prev.writer.w) = 1
    /\ outcome[last.prev.writer.w] = "Undelivered"
    /\ last.id \notin DOMAIN map
    /\ Running

(* The long-term public key and the signature that the extension value holds *)
Embedded(value) ==
    LET inner == expect_tag_and_get_value(value, 48)
        public_key == bit_string_with_no_unused_bits(inner.value)
        signature == bit_string_with_no_unused_bits(public_key.rest)
    IN  [key |-> from_protobuf_encoding(public_key.value).key,
         signature |-> signature.value]

(* The embedded signature verifies against the embedded long-term key over
   the prefix followed by the raw public key of the certificate itself *)
SignatureBinds(certificate) ==
    /\ certificate.extensions # << >>
    /\ Verify(Embedded(certificate.extensions[1].value).key,
              LIBP2P_SIGNING_PREFIX \o public_key_raw(certificate.ephemeral),
              Embedded(certificate.extensions[1].value).signature)

(* C15: extraction returns a peer id only for a certificate whose embedded
   signature verifies against its embedded long-term key over the prefix
   followed by the certificate's own raw public key. *)
C15_TamperedRejected ==
    cert.result.kind = "peer" => SignatureBinds(cert)

(* C16: an extraction that fails does not panic: its result is a peer id or
   an error handed back to the caller. *)
C16_FailureIsRecoverable ==
    cert.result.kind # "panic"

(* C17: the certificate make_cert issues for a long-term keypair carries one
   critical extension under the libp2p object identifier, whose value is the
   sequence of two bit strings that holds the protobuf encoding of the public
   key and the signature of the keypair over the 21-byte prefix followed by
   the 65-byte ephemeral public key; extracting from it, untampered, returns
   the peer id of the public key of that keypair. *)
C17_RoundTrip ==
    cert.stage = "issued" =>
        /\ Len(cert.extensions) = 1
        /\ cert.extensions[1].oid = LIBP2P_OID_BYTES
        /\ cert.extensions[1].critical
        /\ Len(public_key_raw(cert.ephemeral)) = LIBP2P_SIGNATURE_ALGORITHM_PUBLIC_KEY_LENGTH
        /\ cert.extensions[1].value =
              write_sequence(
                  write_bitvec_bytes(into_protobuf_encoding(public(cert.key)))
                  \o write_bitvec_bytes(
                         Sign(cert.key, LIBP2P_SIGNING_PREFIX \o public_key_raw(cert.ephemeral))))
        /\ Embedded(cert.extensions[1].value).key = public(cert.key)
        /\ SignatureBinds(cert)
        /\ cert.result # NoResult => cert.result = Peer(PeerId_from(public(cert.key)))

(* The peer id has been extracted from a certificate as it was issued, whose
   extension value has its lengths in the long form *)
C17_Witness ==
    /\ cert.stage = "issued"
    /\ cert.result.kind = "peer"
    /\ Len(cert.extensions[1].value) >= 256
    /\ cert.result.peer = PeerId_from(public(cert.key))

(* C18: Streams::wake_all resolves, once each, the waiters stored on either
   axis of any entry and nobody else, leaves every entry with no reader and
   an Unblocked writer and the set of ids as it was; a wake_all right after a
   wake_all resolves nobody. *)
C18_WakeAllResolvesAll ==
    [][last'.op = "wake_all" =>
          /\ \A w \in Waiters :
                /\ resolved'[w] = resolved[w] + (IF w \in StoredIn(map) THEN 1 ELSE 0)
                /\ Times(last'.ev, w) = (IF w \in StoredIn(map) THEN 1 ELSE 0)
                /\ parked'[w] = NotParked
          /\ Len(last'.ev) = Cardinality(StoredIn(map))
          /\ DOMAIN map' = DOMAIN map
          /\ \A id \in DOMAIN map' : map'[id] = Default
          /\ live' = live
          /\ ~panicked'
          /\ last.op = "wake_all" => last'.ev = << >>
      ]_vars

(* wake_all has resolved waiters of two streams, on both axes of one of them *)
C18_Witness ==
    /\ last.op = "wake_all"
    /\ Len(last.ev) = 3
    /\ Cardinality(DOMAIN map) = 2
    /\ \A id \in DOMAIN map : map[id] = Default
    /\ \A w \in 1 .. nreg : resolved[w] = 1

(* C19: an add_stream that panics because the id is present has replaced the
   entry by a default state, and the reader and the writer or finisher that
   were stored in it are resolved, once each, by that call; no task is left
   parked on the id. *)
C19_DuplicateAddResolvesWaiters ==
    (last.op = "add_stream" /\ last.had) =>
        /\ panicked
        /\ map[last.id] = Default
        /\ last.ev = ResolutionOf(last.prev.writer) \o
                     (IF last.prev.reader # NoWaker
                      THEN << Wake(last.prev.reader) >> ELSE << >>)
        /\ \A w \in Waiters :
              (w = last.prev.reader \/ w = last.prev.writer.w) =>
                  /\ resolved[w] = 1
                  /\ parked[w] = NotParked
        /\ ParkedOn(last.id, {"reader", "writer", "finisher"}) = {}

(* add_stream has been called on an id whose entry held a reader and a
   finisher *)
C19_Witness ==
    /\ last.op = "add_stream"
    /\ last.had
    /\ panicked
    /\ last.prev.reader # NoWaker
    /\ last.prev.writer.tag = "Finishing"
    /\ Len(last.ev) = 2

(* The call made last registered waiter last.w on a stream of the table *)
Registration ==
    /\ last.op \in {"set_reader", "set_writer", "set_finisher"}
    /\ last.had

(* C20: a registration resolves at most one waiter, the one it displaces on
   its own axis, and never the waiter it stores: right after the call the new
   waiter is stored, its task parked and unresolved, and the other axis is as
   it was. *)
C20_RegistrationResolvesDisplacedOnly ==
    Registration =>
        /\ Len(last.ev) <= 1
        /\ Times(last.ev, last.w) = 0
        /\ resolved[last.w] = 0
        /\ outcome[last.w] = "Pending"
        /\ StoredWhereParked(last.w)
        /\ parked[last.w].id = last.id
        /\ IF last.op = "set_reader"
           THEN /\ map[last.id].reader = last.w
                /\ map[last.id].writer = last.prev.writer
                /\ \A i \in 1 .. Len(last.ev) : last.ev[i].w = last.prev.reader
           ELSE /\ map[last.id].writer.w = last.w
                /\ map[last.id].reader = last.prev.reader
                /\ \A i \in 1 .. Len(last.ev) : last.ev[i].w = last.prev.writer.w

(* set_finisher has displaced a writer waker on a stream whose reader axis
   holds a waiter *)
C20_Witness ==
    /\ Registration
    /\ last.op = "set_finisher"
    /\ Len(last.ev) = 1
    /\ last.prev.reader # NoWaker
    /\ resolved[last.w] = 0
====
